---- MODULE Spec2Model ----
(***************************************************************************)
(* DirectInput virtual gamepad device (dlls/dinput/gamepad.c).             *)
(*                                                                         *)
(* The model covers the process-wide transport state (server_sock,         *)
(* winsock_loaded, connected_gamepad_id, input_type), the single device    *)
(* object (stored previous sample, calibrated DIJOYSTATE, read_event) and  *)
(* the driver entry points gamepad_enum_device, gamepad_create_device,     *)
(* gamepad_acquire, gamepad_unacquire and gamepad_read.  gamepad_read runs *)
(* on the input thread and is split at its blocking recvfrom;              *)
(* gamepad_unacquire runs on the application thread and is split at its    *)
(* wait, its release notice and its socket teardown.                       *)
(***************************************************************************)
EXTENDS Integers, Sequences, FiniteSets, TLC

VARIABLES
    server_sock,            \* "INVALID" or "OPEN"                 (gamepad.c:91)
    sock_bound,             \* the open socket is bound to SERVER_PORT
    winsock_loaded,         \* gamepad.c:92
    connected_gamepad_id,   \* gamepad.c:93
    input_type,             \* gamepad.c:94, capability flags byte
    created,                \* a device object exists
    format_type,            \* the flags the object format was built for
    state,                  \* impl->state, the stored previous RawSample
    device_state,           \* impl->base.device_state, the DIJOYSTATE
    read_event,             \* impl->base.read_event (manual reset)
    hEvent,                 \* impl->base.hEvent registered by the application
    evsequence,             \* impl->base.dinput->evsequence (DWORD)
    acquired,               \* the caller holds the device acquired
    queued,                 \* Events queued by the latest gamepad_handle_input
    seqlog,                 \* <<seq, sample>> of every Event queued so far
    nsamples,               \* gamepad_handle_input calls so far
    wakes,                  \* SetEvent( hEvent ) calls so far
    rd_pc,                  \* input thread: "idle" or "recv"
    un_pc,                  \* gamepad_unacquire: "idle","wait","release","close"
    last,                   \* what the latest handler step did and returned
    os,                     \* the platform's side: sockets open, WSAStartup calls not undone
    scaler                  \* a call of scale_axis_value: arguments and result

vars == <<server_sock, sock_bound, winsock_loaded, connected_gamepad_id, input_type,
          created, format_type, state, device_state, read_event, hEvent, evsequence,
          acquired, queued, seqlog, nsamples, wakes, rd_pc, un_pc, last, os,
          scaler>>

sockVars == <<server_sock, sock_bound, winsock_loaded, os>>
mapVars  == <<state, device_state, evsequence, queued, seqlog, nsamples, wakes>>
devVars  == <<created, format_type, hEvent>>

-----------------------------------------------------------------------------
(* Bounds of the model.                                                    *)

\* At most this many samples are run through gamepad_handle_input.
MaxSamples == 2

-----------------------------------------------------------------------------
(* Program constants.                                                      *)

BUFFER_SIZE == 64
REQUEST_CODE_GET_GAMEPAD == 8
REQUEST_CODE_GET_GAMEPAD_STATE == 9
REQUEST_CODE_RELEASE_GAMEPAD == 10

FLAG_DINPUT_MAPPER_STANDARD == 1
FLAG_DINPUT_MAPPER_XINPUT == 2
FLAG_INPUT_TYPE_XINPUT == 4
FLAG_INPUT_TYPE_DINPUT == 8

IDX_BUTTON_A == 0
IDX_BUTTON_B == 1
IDX_BUTTON_X == 2
IDX_BUTTON_Y == 3
IDX_BUTTON_L1 == 4
IDX_BUTTON_R1 == 5
IDX_BUTTON_L2 == 10
IDX_BUTTON_R2 == 11
IDX_BUTTON_SELECT == 6
IDX_BUTTON_START == 7
IDX_BUTTON_L3 == 8
IDX_BUTTON_R3 == 9

DI_OK == "DI_OK"
DIERR_INPUTLOST == "DIERR_INPUTLOST"

\* A DWORD sequence number is kept as <<high word, low word>>: the model
\* checker's integers stop short of 2^32.
WordMod == 65536
DwordOne == <<0, 1>>
DwordMax == <<WordMod - 1, WordMod - 1>>
DwordInc(d) ==
    IF d[2] = WordMod - 1 THEN <<(d[1] + 1) % WordMod, 0>> ELSE <<d[1], d[2] + 1>>
DwordLess(a, b) == a[1] < b[1] \/ (a[1] = b[1] /\ a[2] < b[2])
DwordAdd(d, n) ==
    <<(d[1] + ((d[2] + n) \div WordMod)) % WordMod, (d[2] + n) % WordMod>>

-----------------------------------------------------------------------------
(* Integer helpers.                                                        *)

\* C integer division truncates toward zero.
TruncDiv(a, b) ==
    IF b = 0 THEN 0
    ELSE LET q == (IF a < 0 THEN -a ELSE a) \div (IF b < 0 THEN -b ELSE b)
         IN  IF (a < 0) = (b < 0) THEN q ELSE -q

\* MulDiv: a*b/c rounded to nearest, ties away from zero; -1 on c = 0 or when
\* the result does not fit.
MulDivFit(ret) == IF ret > 2147483647 \/ ret < -2147483647 THEN -1 ELSE ret
MulDivPos(a, b, c) ==
    MulDivFit(IF (a < 0 /\ b < 0) \/ (a >= 0 /\ b >= 0)
              THEN TruncDiv(a * b + TruncDiv(c, 2), c)
              ELSE TruncDiv(a * b - TruncDiv(c, 2), c))
MulDiv(a, b, c) ==
    IF c = 0 THEN -1
    ELSE IF c < 0 THEN MulDivPos(-a, b, -c)
    ELSE MulDivPos(a, b, c)

\* round( (lo + hi) / 2.0 ): halves round away from zero.
RoundHalf(sum) ==
    IF sum % 2 = 0 THEN sum \div 2
    ELSE IF sum > 0 THEN (sum + 1) \div 2 ELSE (sum - 1) \div 2

\* x >> 1 on a LONG (arithmetic shift).
Shr1(x) == x \div 2

\* Test of flag bit f (a power of two) in the byte t.
HasFlag(t, f) == ((t % 256) \div f) % 2 = 1

\* buttons & (1 << i) on a short promoted to int.
ButtonBit(buttons, i) == ((buttons % 65536) \div (2 ^ i)) % 2 = 1

\* *(short *)p and (char)b read from the wire bytes, kept here as unsigned values.
DecodeShort(u) == IF u >= 32768 THEN u - 65536 ELSE u
DecodeChar(u) == IF u >= 128 THEN u - 256 ELSE u

-----------------------------------------------------------------------------
(* Axis Scaler.                                                            *)

\* The calibration init_object_properties gives every axis object; the
\* properties array is zero-allocated, so deadzone starts at 0.
DefaultProperties ==
    [logical_min |-> -32768, logical_max |-> 32767,
     range_min |-> 0, range_max |-> 65535,
     deadzone |-> 0, saturation |-> 10000, granularity |-> 1]

\* What a read of object_properties[-1] may yield: the bytes before the array.
GarbageProperties ==
    {DefaultProperties,
     [logical_min |-> 0, logical_max |-> 0, range_min |-> 0, range_max |-> 0,
      deadzone |-> 0, saturation |-> 0, granularity |-> 0]}

scale_value(value, properties) ==
    properties.range_min
        + MulDiv(value - properties.logical_min,
                 properties.range_max - properties.range_min,
                 properties.logical_max - properties.logical_min)

\* The center of a range: max >> 1 when min is 0, else the rounded mean.
Center(min, max) == IF min = 0 THEN Shr1(max) ELSE RoundHalf(min + max)

InterpolateUnclamped(value, log_min, log_max, phy_min, phy_max) ==
    phy_min + MulDiv(value - log_min, phy_max - phy_min, log_max - log_min)

\* The clamp and the interpolation that end scale_axis_value.
Interpolate(value, log_min, log_max, phy_min, phy_max) ==
    IF value <= log_min THEN phy_min
    ELSE IF value >= log_max THEN phy_max
    ELSE phy_min + MulDiv(value - log_min, phy_max - phy_min, log_max - log_min)

ScaleAroundNoDeadzone(value, log_ctr, phy_ctr, properties) ==
    IF value <= 0
    THEN Interpolate(value,
                     MulDiv(properties.logical_min - log_ctr, properties.saturation, 10000),
                     0, properties.range_min, phy_ctr)
    ELSE Interpolate(value, 0,
                     MulDiv(properties.logical_max - log_ctr, properties.saturation, 10000),
                     phy_ctr, properties.range_max)

\* scale_axis_value once value is shifted by log_ctr: the two signed halves.
ScaleAround(value, log_ctr, phy_ctr, properties) ==
    IF value <= 0
    THEN Interpolate(value,
                     MulDiv(properties.logical_min - log_ctr, properties.saturation, 10000),
                     MulDiv(properties.logical_min - log_ctr, properties.deadzone, 10000),
                     properties.range_min, phy_ctr)
    ELSE Interpolate(value,
                     MulDiv(properties.logical_max - log_ctr, properties.deadzone, 10000),
                     MulDiv(properties.logical_max - log_ctr, properties.saturation, 10000),
                     phy_ctr, properties.range_max)

scale_axis_value(value, properties) ==
    ScaleAround(value - Center(properties.logical_min, properties.logical_max),
                Center(properties.logical_min, properties.logical_max),
                Center(properties.range_min, properties.range_max),
                properties)

-----------------------------------------------------------------------------
(* Object enumeration.                                                     *)

\* The ordered object lists of get_device_objects, each object as its type
\* and instance number (dwType).
StandardObjects ==
    [i \in 1..4 |-> [kind |-> "ABSAXIS", inst |-> i - 1]]
    \o [i \in 1..12 |-> [kind |-> "BUTTON", inst |-> i - 1]]
    \o <<[kind |-> "POV", inst |-> 0]>>
XinputObjects ==
    [i \in 1..5 |-> [kind |-> "ABSAXIS", inst |-> i - 1]]
    \o [i \in 1..10 |-> [kind |-> "BUTTON", inst |-> i - 1]]
    \o <<[kind |-> "POV", inst |-> 0]>>

\* get_device_objects returns the address of an array local to its own
\* block, which gamepad_enum_objects reads after the block is gone.  The
\* object format built from it is either the list as written or, when the
\* dead storage was reused meanwhile, one in which no object can be found.
ClobberedFormat == -1

\* Which list get_device_objects hands out under capability flags t.
VariantOf(t) ==
    IF t = ClobberedFormat THEN "none"
    ELSE IF HasFlag(t, FLAG_DINPUT_MAPPER_STANDARD) THEN "standard"
    ELSE IF HasFlag(t, FLAG_DINPUT_MAPPER_XINPUT) THEN "xinput"
    ELSE "none"

get_device_objects(t) ==
    CASE VariantOf(t) = "standard" -> StandardObjects
      [] VariantOf(t) = "xinput" -> XinputObjects
      [] OTHER -> << >>

\* The 0-based position of object <<kind, inst>> in a list, -1 when absent.
PositionIn(objs, kind, inst) ==
    LET hits == {i \in 1..Len(objs) : objs[i] = [kind |-> kind, inst |-> inst]}
    IN  IF hits = {} THEN -1 ELSE (CHOOSE i \in hits : TRUE) - 1

ObjectKinds == {"ABSAXIS", "BUTTON", "POV"}
StandardIndex == [k \in ObjectKinds, n \in 0..11 |-> PositionIn(StandardObjects, k, n)]
XinputIndex == [k \in ObjectKinds, n \in 0..11 |-> PositionIn(XinputObjects, k, n)]

\* dinput_device_object_index_from_id on the format built when the device was
\* created: the position of the object in that list, -1 when it has none.
ObjectIndexFromId(fmt, kind, inst) ==
    CASE VariantOf(fmt) = "standard" -> StandardIndex[kind, inst]
      [] VariantOf(fmt) = "xinput" -> XinputIndex[kind, inst]
      [] OTHER -> -1

\* impl->base.object_properties + index; an index of -1 reads before the array.
ObjectProperties(index, garbage) ==
    IF index >= 0 THEN DefaultProperties ELSE garbage

-----------------------------------------------------------------------------
(* Mapping Engine: gamepad_handle_input.                                   *)

ZeroSample ==
    [buttons |-> 0, dpad |-> 0, thumb_lx |-> 0, thumb_ly |-> 0,
     thumb_rx |-> 0, thumb_ry |-> 0, thumb_lz |-> 0, thumb_rz |-> 0]

ZeroJoyState ==
    [lX |-> 0, lY |-> 0, lZ |-> 0, lRx |-> 0, lRy |-> 0, lRz |-> 0,
     rgbButtons |-> [j \in 0..11 |-> 0], rgdwPOV |-> 0]

\* One queue_event call: object index, value and sequence number, with the
\* block of gamepad_handle_input that made the call.  The value is a DWORD on
\* the way out; it is kept as the LONG with the same bits.
Event(block, index, value, seq) ==
    [block |-> block, index |-> index, value |-> value, seq |-> seq]

\* seq = impl->base.dinput->evsequence++ : the number the events carry and
\* the counter afterwards.
SeqTaken(evseq) == evseq
SeqAfterPerEvent(evseq) == DwordAdd(evseq, 2)
SeqAfterStuck(evseq) == evseq
SeqAfter(evseq) == DwordInc(evseq)

\* The switch of the Standard variant: source bit i to logical button slot j.
StandardSlotInPlace(i) == i

\* The switch of the Standard button loop: source bit i to slot j.
StandardSlot(i) ==
    CASE i = IDX_BUTTON_A -> 1
      [] i = IDX_BUTTON_B -> 2
      [] i = IDX_BUTTON_X -> 0
      [] i = IDX_BUTTON_Y -> 3
      [] i = IDX_BUTTON_L1 -> 4
      [] i = IDX_BUTTON_R1 -> 5
      [] i = IDX_BUTTON_L2 -> 6
      [] i = IDX_BUTTON_R2 -> 7
      [] i = IDX_BUTTON_SELECT -> 8
      [] i = IDX_BUTTON_START -> 9
      [] i = IDX_BUTTON_L3 -> 10
      [] i = IDX_BUTTON_R3 -> 11
      [] OTHER -> 0

XinputSlot(i) == i

PovValueUnguarded(dpad) == dpad * 4500

\* dpad != -1 ? dpad * 4500 : -1
PovValue(dpad) == IF dpad # -1 THEN dpad * 4500 ELSE -1

TriggerValueRightFirst(lz_changed, thumb_lz, thumb_rz) ==
    IF thumb_rz # 0 THEN MulDiv(thumb_rz, 32767, 255) ELSE MulDiv(thumb_lz, -32768, 255)

\* The merged trigger axis: lz wins when it changed, else rz.
TriggerValue(lz_changed, thumb_lz, thumb_rz) ==
    IF lz_changed THEN MulDiv(thumb_lz, -32768, 255) ELSE MulDiv(thumb_rz, 32767, 255)

\* What a block hands on: whether its field changed, the value it wrote and
\* the Events it queued.
BlockResult(changed, block, index, v, seq) ==
    [changed |-> changed, value |-> v,
     ev |-> IF changed THEN <<Event(block, index, v, seq)>> ELSE << >>]

ScaledAt(index, raw, garbage) ==
    scale_axis_value(raw, ObjectProperties(index, garbage))

\* One axis block: when the field differs from the stored one it is stored,
\* scaled into the DIJOYSTATE and queued.
AxisBlock(st, field, inst, fmt, garbage, sample, seq) ==
    BlockResult(sample[field] # st[field], field,
                ObjectIndexFromId(fmt, "ABSAXIS", inst),
                ScaledAt(ObjectIndexFromId(fmt, "ABSAXIS", inst), sample[field], garbage),
                seq)

\* The trigger block of the Xbox-style variant.
TriggerBlock(st, fmt, garbage, sample, seq) ==
    BlockResult(sample.thumb_lz # st.thumb_lz \/ sample.thumb_rz # st.thumb_rz,
                "trigger", ObjectIndexFromId(fmt, "ABSAXIS", 2),
                ScaledAt(ObjectIndexFromId(fmt, "ABSAXIS", 2),
                         TriggerValue(sample.thumb_lz # st.thumb_lz,
                                      sample.thumb_lz, sample.thumb_rz),
                         garbage),
                seq)

ButtonSlot(standard, i) == IF standard THEN StandardSlot(i) ELSE XinputSlot(i)
ButtonValue(buttons, i) == IF ButtonBit(buttons, i) THEN 128 ELSE 0

ButtonEventCountShort(count) == count - 1

\* How many button Events one pass of the button loop queues.
ButtonEventCount(count) == count

\* For each slot, the source bits whose pass of the loop writes it.
StandardWriters == [j \in 0..11 |-> {i \in 0..11 : StandardSlot(i) = j}]
XinputWriters == [j \in 0..11 |-> {i \in 0..9 : XinputSlot(i) = j}]
SetMax(S) == CHOOSE i \in S : \A k \in S : k <= i

\* The button loop over source bits 0..count-1 in ascending order: every
\* pass writes slot j and queues one Event.  A slot keeps the value of the
\* last pass that wrote it.
ButtonsWritten(old, writers, buttons) ==
    [j \in DOMAIN old |->
        IF writers[j] # {} THEN ButtonValue(buttons, SetMax(writers[j])) ELSE old[j]]

ButtonEvents(count, standard, fmt, buttons, seq) ==
    [n \in 1..ButtonEventCount(count) |->
        Event("buttons", ObjectIndexFromId(fmt, "BUTTON", ButtonSlot(standard, n - 1)),
              ButtonValue(buttons, n - 1), seq)]

ButtonBlock(st, ds, count, standard, fmt, sample, seq) ==
    IF sample.buttons # st.buttons
    THEN [changed |-> TRUE,
          rgbButtons |-> ButtonsWritten(ds.rgbButtons,
                                        IF standard THEN StandardWriters
                                        ELSE XinputWriters,
                                        sample.buttons),
          ev |-> ButtonEvents(count, standard, fmt, sample.buttons, seq)]
    ELSE [changed |-> FALSE, rgbButtons |-> ds.rgbButtons, ev |-> << >>]

PovBlock(st, fmt, sample, seq) ==
    BlockResult(sample.dpad # st.dpad, "dpad", ObjectIndexFromId(fmt, "POV", 0),
                PovValue(sample.dpad), seq)

Pick(changed, new, old) == IF changed THEN new ELSE old

HatBeforeButtons(axes, bt, pov) == axes \o pov \o bt

\* The queue_event calls of one sample in the order the branch makes them:
\* the axis blocks, then the button loop, then the hat.
InOrder(axes, bt, pov) == axes \o bt \o pov

StandardStoredWhole(st, sample) == sample

\* The sample the Standard branch leaves stored: every field it compares is
\* taken from the new sample, thumb_lz and thumb_rz are never assigned.
StandardStored(st, sample) ==
    [sample EXCEPT !.thumb_lz = st.thumb_lz, !.thumb_rz = st.thumb_rz]

\* The Standard branch put together from its blocks x, y, z, rz, bt, pov.
StandardResult(st, ds, sample, x, y, z, rz, bt, pov) ==
    [st |-> StandardStored(st, sample),
     ds |-> [ds EXCEPT !.lX = Pick(x.changed, x.value, @),
                       !.lY = Pick(y.changed, y.value, @),
                       !.lZ = Pick(z.changed, z.value, @),
                       !.lRz = Pick(rz.changed, rz.value, @),
                       !.rgbButtons = bt.rgbButtons,
                       !.rgdwPOV = Pick(pov.changed, pov.value, @)],
     ev |-> InOrder(x.ev \o y.ev \o z.ev \o rz.ev, bt.ev, pov.ev),
     notify |-> x.changed \/ y.changed \/ z.changed \/ rz.changed
                \/ bt.changed \/ pov.changed]

\* The Standard branch: lx, ly, rx, ry onto X, Y, Z, Rz, then the 12 buttons,
\* then the hat; lz and rz are neither compared nor stored.
HandleStandard(st, ds, fmt, garbage, sample, seq) ==
    StandardResult(st, ds, sample,
                   AxisBlock(st, "thumb_lx", 0, fmt, garbage, sample, seq),
                   AxisBlock(st, "thumb_ly", 1, fmt, garbage, sample, seq),
                   AxisBlock(st, "thumb_rx", 2, fmt, garbage, sample, seq),
                   AxisBlock(st, "thumb_ry", 3, fmt, garbage, sample, seq),
                   ButtonBlock(st, ds, 12, TRUE, fmt, sample, seq),
                   PovBlock(st, fmt, sample, seq))

\* The Xbox-style branch put together from its blocks.
XinputResult(st, ds, sample, x, y, rx, ry, tr, bt, pov) ==
    [st |-> sample,
     ds |-> [ds EXCEPT !.lX = Pick(x.changed, x.value, @),
                       !.lY = Pick(y.changed, y.value, @),
                       !.lRx = Pick(rx.changed, rx.value, @),
                       !.lRy = Pick(ry.changed, ry.value, @),
                       !.lZ = Pick(tr.changed, tr.value, @),
                       !.rgbButtons = bt.rgbButtons,
                       !.rgdwPOV = Pick(pov.changed, pov.value, @)],
     ev |-> InOrder(x.ev \o y.ev \o rx.ev \o ry.ev \o tr.ev, bt.ev, pov.ev),
     notify |-> x.changed \/ y.changed \/ rx.changed \/ ry.changed
                \/ tr.changed \/ bt.changed \/ pov.changed]

\* The Xbox-style branch: lx, ly, rx, ry onto X, Y, Rx, Ry, the merged
\* trigger axis Z, then the 10 buttons, then the hat.
HandleXinput(st, ds, fmt, garbage, sample, seq) ==
    XinputResult(st, ds, sample,
                 AxisBlock(st, "thumb_lx", 0, fmt, garbage, sample, seq),
                 AxisBlock(st, "thumb_ly", 1, fmt, garbage, sample, seq),
                 AxisBlock(st, "thumb_rx", 3, fmt, garbage, sample, seq),
                 AxisBlock(st, "thumb_ry", 4, fmt, garbage, sample, seq),
                 TriggerBlock(st, fmt, garbage, sample, seq),
                 ButtonBlock(st, ds, 10, FALSE, fmt, sample, seq),
                 PovBlock(st, fmt, sample, seq))

\* gamepad_handle_input on stored sample st and DIJOYSTATE ds: the new stored
\* sample, the new DIJOYSTATE, the Events queued in order and the notify flag.
gamepad_handle_input(st, ds, type, fmt, garbage, sample, seq) ==
    IF HasFlag(type, FLAG_DINPUT_MAPPER_STANDARD)
    THEN HandleStandard(st, ds, fmt, garbage, sample, seq)
    ELSE IF HasFlag(type, FLAG_DINPUT_MAPPER_XINPUT)
    THEN HandleXinput(st, ds, fmt, garbage, sample, seq)
    ELSE [st |-> st, ds |-> ds, ev |-> << >>, notify |-> FALSE]

-----------------------------------------------------------------------------
(* Transport Manager.                                                      *)

\* Where create_server_socket can fail: WSAStartup, socket, setsockopt, bind.
CreateFailures == {"none", "wsa", "socket", "setsockopt", "bind"}

\* What close_server_socket leaves at the platform: closesocket when the
\* global holds a socket, WSACleanup when winsock_loaded is set.
OsAfterClose(before, sock, loaded) ==
    [sockets |-> before.sockets - (IF sock # "INVALID" THEN 1 ELSE 0),
     startups |-> before.startups - (IF loaded THEN 1 ELSE 0)]

OsAfterCreateWithoutClose(before, sock, loaded, fail) ==
    [sockets |-> before.sockets + (IF fail \in {"wsa", "socket"} THEN 0 ELSE 1),
     startups |-> before.startups + (IF fail = "wsa" THEN 0 ELSE 1)]

\* What create_server_socket failing at step fail leaves at the platform:
\* close_server_socket first, then WSAStartup and socket where they succeed.
OsAfterCreate(before, sock, loaded, fail) ==
    [sockets |-> OsAfterClose(before, sock, loaded).sockets
                    + (IF fail \in {"wsa", "socket"} THEN 0 ELSE 1),
     startups |-> OsAfterClose(before, sock, loaded).startups
                    + (IF fail = "wsa" THEN 0 ELSE 1)]

\* close_server_socket: closesocket and WSACleanup, whatever was open before.
close_server_socket ==
    [server_sock |-> "INVALID", sock_bound |-> FALSE, winsock_loaded |-> FALSE]

\* create_server_socket failing at step fail: the socket state left behind
\* and the return value.
create_server_socket(fail) ==
    LET closed == close_server_socket
    IN  CASE fail = "wsa" ->
               [closed EXCEPT !.winsock_loaded = FALSE] @@ [ret |-> FALSE]
          [] fail = "socket" ->
               [closed EXCEPT !.winsock_loaded = TRUE] @@ [ret |-> FALSE]
          [] fail \in {"setsockopt", "bind"} ->
               [closed EXCEPT !.winsock_loaded = TRUE, !.server_sock = "OPEN"]
                   @@ [ret |-> FALSE]
          [] OTHER ->
               [closed EXCEPT !.winsock_loaded = TRUE, !.server_sock = "OPEN",
                              !.sock_bound = TRUE] @@ [ret |-> TRUE]

-----------------------------------------------------------------------------
(* Protocol Codec: the GET_GAMEPAD exchange.                               *)

\* Capability bytes the remote side answers with while the lifecycle runs:
\* Xbox-style mapper for another consumer, Standard and Xbox-style for dinput.
CapsVals == {FLAG_DINPUT_MAPPER_XINPUT,
             FLAG_INPUT_TYPE_DINPUT + FLAG_DINPUT_MAPPER_STANDARD,
             FLAG_INPUT_TYPE_DINPUT + FLAG_DINPUT_MAPPER_XINPUT}
\* Capability bytes in force while the Mapping Engine is fed: also both
\* mapper bits at once.
MapCaps == {FLAG_INPUT_TYPE_DINPUT + FLAG_DINPUT_MAPPER_STANDARD,
            FLAG_INPUT_TYPE_DINPUT + FLAG_DINPUT_MAPPER_XINPUT,
            FLAG_INPUT_TYPE_DINPUT + FLAG_DINPUT_MAPPER_XINPUT
                + FLAG_DINPUT_MAPPER_STANDARD}
ResponseIds == {0, 1}
NameLens == {4, 64}

Timeout == [kind |-> "timeout"]

\* The lengths recvfrom can report for a datagram that fits the buffer: the
\* whole frame, or fewer bytes, of which the code and the id are the first.
\* The bytes of the buffer past the reported length keep what was there.
FrameLens == {5, BUFFER_SIZE}

\* What recvfrom can return to get_gamepad_request.  In a short response the
\* capability byte and the name are what the buffer held before.
Responses ==
    {Timeout}
    \cup {[kind |-> "data", code |-> REQUEST_CODE_GET_GAMEPAD_STATE, id |-> 1,
           caps |-> FLAG_INPUT_TYPE_DINPUT + FLAG_DINPUT_MAPPER_STANDARD, name_len |-> 4,
           len |-> BUFFER_SIZE]}
    \cup {[kind |-> "data", code |-> REQUEST_CODE_GET_GAMEPAD, id |-> i, caps |-> c,
           name_len |-> n, len |-> BUFFER_SIZE] :
              i \in ResponseIds, c \in CapsVals, n \in NameLens}
    \cup {[kind |-> "data", code |-> REQUEST_CODE_GET_GAMEPAD, id |-> 1, caps |-> c,
           name_len |-> n, len |-> l] :
              c \in CapsVals, n \in NameLens, l \in FrameLens \ {BUFFER_SIZE}}

\* What the recvfrom of an exchange returned, when the exchange reached it.
ExchangeRecv(reached, resp) ==
    IF ~reached THEN [kind |-> "none"]
    ELSE IF resp.kind = "timeout" THEN Timeout
    ELSE [kind |-> "data", len |-> resp.len]

\* sendto succeeds only on a valid socket and when the transport accepts it.
SendSucceeds(sock, send_ok) == sock = "OPEN" /\ send_ok

\* The identity left after a response that names no controller.
IdAfterNoController(cur_id) == 0

\* The identity and capability flags left after a response that names
\* controller id with capability byte caps.
IdAfterResponse(cur_id, id) == id
TypeAfterResponse(cur_type, caps) == caps

PassesAnyConsumer(type) == TRUE

\* Whether the capability byte passes the transport-is-dinput check.
PassesDinputCheck(type) == HasFlag(type, FLAG_INPUT_TYPE_DINPUT)

\* The caller's name array: char gamepad_name[64] in gamepad_enum_device.
GamepadNameSize == 64
\* Where the name starts in the response.
NameOffset == 10

\* get_gamepad_request: the return value, the shared identity and flags and
\* the name copied out (the length memcpy is given, taken from the response
\* as it is; -1 when none was copied).
get_gamepad_request(sock, wants_name, send_ok, resp, cur_id, cur_type) ==
    LET same == [ret |-> FALSE, id |-> cur_id, type |-> cur_type, name_len |-> -1]
    IN  IF ~SendSucceeds(sock, send_ok) THEN same
        ELSE IF resp.kind = "timeout" \/ resp.code # REQUEST_CODE_GET_GAMEPAD THEN same
        ELSE IF resp.id = 0 THEN [same EXCEPT !.id = IdAfterNoController(cur_id)]
        ELSE LET id == IdAfterResponse(cur_id, resp.id)
                 type == TypeAfterResponse(cur_type, resp.caps)
             IN  IF ~PassesDinputCheck(type)
                 THEN [same EXCEPT !.id = id, !.type = type]
                 ELSE [ret |-> TRUE, id |-> id, type |-> type,
                       name_len |-> IF wants_name THEN resp.name_len ELSE -1]

\* The case of an exchange, read off its inputs alone.
ExchangeCase(create_ok, sock, send_ok, resp) ==
    IF ~create_ok THEN "create_failed"
    ELSE IF sock # "OPEN" \/ ~send_ok THEN "send_failed"
    ELSE IF resp.kind = "timeout" THEN "timeout"
    ELSE IF resp.code # REQUEST_CODE_GET_GAMEPAD THEN "wrong_code"
    ELSE IF resp.id = 0 THEN "no_id"
    ELSE IF ~HasFlag(resp.caps, FLAG_INPUT_TYPE_DINPUT) THEN "no_dinput"
    ELSE "ok"

Unpopulated == [populated |-> FALSE, name_len |-> -1]

\* The result gamepad_enum_device returns on the failure path.
EnumFailure == DIERR_INPUTLOST

\* gamepad_enum_device with create_server_socket failing at fail (or not):
\* socket state, shared identity and flags, return value and the descriptor.
gamepad_enum_device(fail, send_ok, resp, cur_id, cur_type) ==
    LET sk == create_server_socket(fail)
        rq == get_gamepad_request(sk.server_sock, TRUE, send_ok, resp, cur_id, cur_type)
    IN  IF ~sk.ret
        THEN [sock |-> sk, id |-> cur_id, type |-> cur_type, result |-> EnumFailure,
              instance |-> Unpopulated, sent |-> << >>]
        ELSE [sock |-> sk, id |-> rq.id, type |-> rq.type,
              result |-> IF rq.ret THEN DI_OK ELSE EnumFailure,
              instance |-> IF rq.ret
                           THEN [populated |-> TRUE, name_len |-> rq.name_len]
                           ELSE Unpopulated,
              sent |-> <<[code |-> REQUEST_CODE_GET_GAMEPAD, notify |-> FALSE,
                          ok |-> SendSucceeds(sk.server_sock, send_ok)]>>]

\* The return value of gamepad_acquire after its exchange returned ret.
AcquireResult(ret) == DI_OK

-----------------------------------------------------------------------------
(* Live state pushes.                                                      *)

Fields == {"buttons", "dpad", "thumb_lx", "thumb_ly", "thumb_rx", "thumb_ry",
           "thumb_lz", "thumb_rz"}

\* The payload bytes of a controller at rest and the off-rest value of each
\* control, as unsigned wire values.
RestWire ==
    [buttons |-> 0, dpad |-> 255, thumb_lx |-> 0, thumb_ly |-> 0,
     thumb_rx |-> 0, thumb_ry |-> 0, thumb_lz |-> 0, thumb_rz |-> 0]
AltWire ==
    [buttons |-> 1029, dpad |-> 2, thumb_lx |-> 32768, thumb_ly |-> 32767,
     thumb_rx |-> 16384, thumb_ry |-> 65535, thumb_lz |-> 10, thumb_rz |-> 10]

\* The payload with only control f off rest, and the one with both triggers
\* pulled at once.
OneOff(f) == [RestWire EXCEPT ![f] = AltWire[f]]
BothTriggers == [RestWire EXCEPT !.thumb_lz = AltWire.thumb_lz,
                                 !.thumb_rz = AltWire.thumb_rz]

\* The payloads fed to the Mapping Engine: at rest, each control alone off
\* rest, both triggers, every control off rest.
WireSamples == {RestWire, AltWire, BothTriggers} \cup {OneOff(f) : f \in Fields}

\* The payloads pushed while the whole lifecycle runs.
LifeSamples == {AltWire}

\* What the bytes of an uninitialised receive buffer can read as.
StaleTails == {RestWire, AltWire}

\* The field reads of gamepad_read: shorts and chars from the buffer.
DecodeSample(w) ==
    [buttons |-> DecodeShort(w.buttons), dpad |-> DecodeChar(w.dpad),
     thumb_lx |-> DecodeShort(w.thumb_lx), thumb_ly |-> DecodeShort(w.thumb_ly),
     thumb_rx |-> DecodeShort(w.thumb_rx), thumb_ry |-> DecodeShort(w.thumb_ry),
     thumb_lz |-> w.thumb_lz, thumb_rz |-> w.thumb_rz]

PushIds == {0, 1, 2}

\* Datagrams gamepad_read can receive while identity active is in force:
\* state pushes for it carrying a payload of S, pushes for other ids, a push
\* with the wrong second byte and a stray GET_GAMEPAD response.
Datagrams(S, active) ==
    {[kind |-> "data", code |-> REQUEST_CODE_GET_GAMEPAD_STATE, b1 |-> 1, id |-> active,
      wire |-> w, len |-> BUFFER_SIZE] : w \in S}
    \cup {[kind |-> "data", code |-> REQUEST_CODE_GET_GAMEPAD_STATE, b1 |-> 1, id |-> i,
           wire |-> AltWire, len |-> BUFFER_SIZE] : i \in PushIds \ {active}}
    \cup {[kind |-> "data", code |-> REQUEST_CODE_GET_GAMEPAD_STATE, b1 |-> 0,
           id |-> active, wire |-> AltWire, len |-> BUFFER_SIZE],
          [kind |-> "data", code |-> REQUEST_CODE_GET_GAMEPAD, b1 |-> 0,
           id |-> active, wire |-> AltWire, len |-> BUFFER_SIZE]}

\* State pushes cut short after the id: the payload gamepad_read goes on to
\* read is what its uninitialised buffer held, any payload of S.
ShortDatagrams(S, active) ==
    {[kind |-> "data", code |-> REQUEST_CODE_GET_GAMEPAD_STATE, b1 |-> 1, id |-> active,
      wire |-> w, len |-> l] : w \in S, l \in FrameLens \ {BUFFER_SIZE}}

AcceptsAnyId(d, connected) ==
    /\ d.kind = "data"
    /\ d.code = REQUEST_CODE_GET_GAMEPAD_STATE
    /\ d.b1 = 1

\* The test of gamepad_read that lets a datagram through to the Mapping
\* Engine: code, second byte and the embedded gamepad id.
AcceptsState(d, connected) ==
    /\ d.kind = "data"
    /\ d.code = REQUEST_CODE_GET_GAMEPAD_STATE
    /\ d.b1 = 1
    /\ d.id = connected

\* What recvfrom handed to gamepad_read, the payload as gamepad_read reads it.
Received(d) ==
    IF d.kind = "data"
    THEN [kind |-> "data", code |-> d.code, b1 |-> d.b1, id |-> d.id,
          sample |-> DecodeSample(d.wire), len |-> d.len]
    ELSE [kind |-> d.kind]

-----------------------------------------------------------------------------------------------------------------------------------------------------
(* Initial state: nothing enumerated, no device created.                   *)

\* evsequence belongs to the dinput object, which outlives devices: a fresh
\* one starts at 1, a long-lived one may be about to wrap.
SeqStarts == {DwordOne, DwordMax}

\* The record kept of the latest handler step: the operation, the case of
\* its GET_GAMEPAD exchange, its return value, what its recvfrom returned,
\* the descriptor it was handed and whether its sendto went out.
Last(op, case, result, recv, inst, sent) ==
    [op |-> op, case |-> case, result |-> result, recv |-> recv,
     instance |-> inst, sent |-> sent]

NoRecv == ExchangeRecv(FALSE, Timeout)
FullRecv == [kind |-> "data", len |-> BUFFER_SIZE]

\* No call of scale_axis_value under way.
NoCall == [properties |-> DefaultProperties, value |-> 0, called |-> FALSE, result |-> 0]

\* The module's globals and the device before any handler has run.
Constructed ==
    /\ server_sock = "INVALID"
    /\ sock_bound = FALSE
    /\ winsock_loaded = FALSE
    /\ connected_gamepad_id = 0
    /\ input_type = FLAG_DINPUT_MAPPER_XINPUT
    /\ created = FALSE
    /\ format_type = 0
    /\ state = ZeroSample
    /\ device_state = ZeroJoyState
    /\ read_event = FALSE
    /\ hEvent = FALSE
    /\ evsequence = DwordOne
    /\ acquired = FALSE
    /\ queued = << >>
    /\ seqlog = << >>
    /\ nsamples = 0
    /\ wakes = 0
    /\ rd_pc = "idle"
    /\ un_pc = "idle"
    /\ last = Last("none", "none", "none", NoRecv, Unpopulated, "none")
    /\ os = [sockets |-> 0, startups |-> 0]

Init == Constructed /\ scaler = NoCall

-----------------------------------------------------------------------------
(* Operations.                                                             *)

SentFlag(ok) == IF ok THEN "sent" ELSE "failed"

\* The effect of one gamepad_enum_device call on the shared state.
EnumEffect(op, fail, send_ok, resp) ==
    LET r == gamepad_enum_device(fail, send_ok, resp, connected_gamepad_id, input_type)
    IN  /\ server_sock' = r.sock.server_sock
        /\ sock_bound' = r.sock.sock_bound
        /\ winsock_loaded' = r.sock.winsock_loaded
        /\ os' = OsAfterCreate(os, server_sock, winsock_loaded, fail)
        /\ connected_gamepad_id' = r.id
        /\ input_type' = r.type
        /\ last' = Last(op, ExchangeCase(r.sock.ret, r.sock.server_sock, send_ok, resp),
                        r.result,
                        ExchangeRecv(r.sock.ret /\ SendSucceeds(r.sock.server_sock, send_ok),
                                     resp),
                        r.instance,
                        IF r.sent = << >> THEN "none" ELSE SentFlag(r.sent[1].ok))

\* The inputs of an exchange, cut to those the exchange gets to read.
ExchangeInputs ==
    {<<f, s, r>> \in CreateFailures \X BOOLEAN \X Responses :
        /\ f # "none" => (s /\ r = Timeout)
        /\ ~s => r = Timeout}

\* IDirectInput::EnumDevices reaching gamepad_enum_device (application thread).
EnumDevice ==
    /\ un_pc = "idle"
    /\ \E in \in ExchangeInputs : EnumEffect("enum", in[1], in[2], in[3])
    /\ UNCHANGED <<scaler, devVars, mapVars, read_event, acquired, rd_pc, un_pc>>

\* gamepad_create_device: enumerates (result ignored), builds the object
\* format for the flags then in force, creates read_event non-signaled.
CreateDevice ==
    /\ un_pc = "idle"
    /\ ~created
    /\ \E in \in ExchangeInputs : EnumEffect("create", in[1], in[2], in[3])
    /\ created' = TRUE
    /\ format_type' \in {input_type', ClobberedFormat}
    /\ hEvent' \in BOOLEAN
    /\ read_event' = FALSE
    /\ state' = ZeroSample
    /\ device_state' = ZeroJoyState
    /\ UNCHANGED <<scaler, evsequence, queued, seqlog, nsamples, wakes, acquired, rd_pc, un_pc>>

\* gamepad_acquire: GET_GAMEPAD with notify set, then SetEvent( read_event ).
\* The caller marks the device acquired when the call succeeds.
Acquire ==
    /\ un_pc = "idle"
    /\ created /\ ~acquired
    /\ \E in \in ExchangeInputs :
         /\ in[1] = "none"
         /\ LET r == get_gamepad_request(server_sock, FALSE, in[2], in[3],
                                         connected_gamepad_id, input_type)
                result == AcquireResult(r.ret)
            IN  /\ connected_gamepad_id' = r.id
                /\ input_type' = r.type
                /\ acquired' = (result = DI_OK)
                /\ last' = Last("acquire", ExchangeCase(TRUE, server_sock, in[2], in[3]),
                                result,
                                ExchangeRecv(SendSucceeds(server_sock, in[2]), in[3]),
                                Unpopulated,
                                SentFlag(SendSucceeds(server_sock, in[2])))
    /\ read_event' = TRUE
    /\ UNCHANGED <<scaler, sockVars, devVars, mapVars, rd_pc, un_pc>>

\* gamepad_unacquire is entered.
UnacquireBegin ==
    /\ un_pc = "idle"
    /\ created /\ acquired
    /\ un_pc' = "wait"
    /\ UNCHANGED <<scaler, sockVars, connected_gamepad_id, input_type, devVars, mapVars,
                   read_event, acquired, rd_pc, last>>

\* Whether WaitForSingleObject( read_event, INFINITE ) lets unacquire go on
\* while the input thread is at reader.
WaitPasses(event, reader) == event

\* WaitForSingleObject on the manual-reset read_event returns once it is set.
UnacquireWait ==
    /\ un_pc = "wait"
    /\ WaitPasses(read_event, rd_pc)
    /\ un_pc' = "release"
    /\ UNCHANGED <<scaler, sockVars, connected_gamepad_id, input_type, devVars, mapVars,
                   read_event, acquired, rd_pc, last>>

\* release_gamepad_request: one RELEASE_GAMEPAD datagram, result ignored.
UnacquireRelease ==
    /\ un_pc = "release"
    /\ \E send_ok \in BOOLEAN :
         last' = Last("release", "none", "none", NoRecv, Unpopulated,
                      SentFlag(SendSucceeds(server_sock, send_ok)))
    /\ un_pc' = "close"
    /\ UNCHANGED <<scaler, sockVars, connected_gamepad_id, input_type, devVars, mapVars,
                   read_event, acquired, rd_pc>>

\* The shared identity after gamepad_unacquire.
IdAfterUnacquire(cur_id) == cur_id

\* close_server_socket and return DI_OK; the caller drops the device from
\* the acquired list.
UnacquireClose ==
    /\ un_pc = "close"
    /\ server_sock' = close_server_socket.server_sock
    /\ sock_bound' = close_server_socket.sock_bound
    /\ winsock_loaded' = close_server_socket.winsock_loaded
    /\ os' = OsAfterClose(os, server_sock, winsock_loaded)
    /\ connected_gamepad_id' = IdAfterUnacquire(connected_gamepad_id)
    /\ acquired' = FALSE
    /\ un_pc' = "idle"
    /\ last' = Last("unacquire", "none", DI_OK, NoRecv, Unpopulated, "none")
    /\ UNCHANGED <<scaler, input_type, devVars, mapVars, read_event, rd_pc>>

\* gamepad_read up to its recvfrom: returns at once on an invalid socket.
ReadBegin ==
    /\ rd_pc = "idle"
    /\ created /\ acquired /\ read_event
    /\ IF server_sock = "INVALID"
       THEN /\ last' = Last("read", "none", DI_OK, [kind |-> "nosocket"],
                            Unpopulated, "none")
            /\ rd_pc' = "idle"
       ELSE /\ rd_pc' = "recv"
            /\ UNCHANGED last
    /\ UNCHANGED <<scaler, sockVars, connected_gamepad_id, input_type, devVars, mapVars,
                   read_event, acquired, un_pc>>

\* What the reads of object_properties can yield under flags type on a
\* device whose format was built for fmt: garbage when the variant in force
\* looks up an axis the format lacks.
GarbageFor(type, fmt) ==
    LET axes == IF HasFlag(type, FLAG_DINPUT_MAPPER_STANDARD) THEN 0..3
                ELSE IF HasFlag(type, FLAG_DINPUT_MAPPER_XINPUT) THEN 0..4
                ELSE {}
    IN  IF \E a \in axes : ObjectIndexFromId(fmt, "ABSAXIS", a) = -1
        THEN GarbageProperties
        ELSE {DefaultProperties}

\* The sequence number of each Event of ev, with the ordinal n of its sample.
Stamps(ev, n) == [i \in 1..Len(ev) |-> <<ev[i].seq, n>>]

WakesAfterAnySample(n, notify, handle) == IF handle THEN n + 1 ELSE n

\* if (notify && impl->base.hEvent) SetEvent( impl->base.hEvent ), counted.
WakesAfter(n, notify, handle) == IF notify /\ handle THEN n + 1 ELSE n

\* The Mapping Engine's result r taken into the device: stored sample,
\* DIJOYSTATE, the Event Sink and, when notify is set and a notification
\* handle is registered, SetEvent.
ApplyInput(r) ==
    /\ evsequence' = SeqAfter(evsequence)
    /\ state' = r.st
    /\ device_state' = r.ds
    /\ queued' = r.ev
    /\ seqlog' = seqlog \o Stamps(r.ev, nsamples + 1)
    /\ nsamples' = nsamples + 1
    /\ wakes' = WakesAfter(wakes, r.notify, hEvent)

\* gamepad_read from the return of recvfrom on: d is what recvfrom returned.
ReadEffect(d) ==
    /\ last' = Last("read", "none", DI_OK, Received(d), Unpopulated, "none")
    /\ rd_pc' = "idle"
    /\ IF AcceptsState(d, connected_gamepad_id)
       THEN /\ nsamples < MaxSamples
            /\ \E garbage \in GarbageFor(input_type, format_type) :
                 ApplyInput(gamepad_handle_input(state, device_state, input_type,
                                                 format_type, garbage,
                                                 DecodeSample(d.wire),
                                                 SeqTaken(evsequence)))
       ELSE UNCHANGED mapVars

\* recvfrom on a socket closed under the reader fails; otherwise it times
\* out or returns a datagram: a whole state push carrying a payload of S, or
\* one cut short, read with a payload of T.
ReadRecv(S, T) ==
    /\ rd_pc = "recv"
    /\ \E d \in {Timeout} \cup Datagrams(S, connected_gamepad_id)
                \cup ShortDatagrams(T, connected_gamepad_id) :
         /\ server_sock = "INVALID" => d = Timeout
         /\ ReadEffect(d)
    /\ UNCHANGED <<scaler, sockVars, connected_gamepad_id, input_type, devVars, read_event,
                   acquired, un_pc>>

-----------------------------------------------------------------------------
(* Specifications.                                                         *)

ReadRecvLife == ReadRecv(LifeSamples, {})
ReadRecvFrame == ReadRecv(LifeSamples, StaleTails)
ReadRecvMap == ReadRecv(WireSamples, {})

\* The whole lifecycle; the application thread and the input thread run
\* concurrently.
Next ==
    \/ EnumDevice
    \/ CreateDevice
    \/ Acquire
    \/ UnacquireBegin
    \/ UnacquireWait
    \/ UnacquireRelease
    \/ UnacquireClose
    \/ ReadBegin
    \/ ReadRecvLife

Spec == Init /\ [][Next]_vars

\* The Mapping Engine on its own: a created, acquired device fed samples by
\* successive polls.  The starting states are those the lifecycle reaches
\* once discovery and acquire have succeeded, for every pairing of the
\* capability flags in force with the flags the object format was built for.
MapInit ==
    /\ server_sock = "OPEN"
    /\ sock_bound = TRUE
    /\ winsock_loaded = TRUE
    /\ os = [sockets |-> 1, startups |-> 1]
    /\ connected_gamepad_id = 1
    /\ input_type \in MapCaps
    /\ created = TRUE
    /\ format_type \in MapCaps \cup {ClobberedFormat}
    /\ state = ZeroSample
    /\ device_state = ZeroJoyState
    /\ read_event = TRUE
    /\ hEvent \in BOOLEAN
    /\ evsequence \in SeqStarts
    /\ acquired = TRUE
    /\ queued = << >>
    /\ seqlog = << >>
    /\ nsamples = 0
    /\ wakes = 0
    /\ rd_pc = "idle"
    /\ un_pc = "idle"
    /\ last = Last("acquire", "ok", DI_OK, FullRecv, Unpopulated, "sent")
    /\ scaler = NoCall

MapNext ==
    \/ ReadBegin
    \/ ReadRecvMap

SpecMap == MapInit /\ [][MapNext]_vars

\* The Protocol Codec on its own: discovery exchanges and polls of a created,
\* acquired device, with datagrams of either length.
FrameNext ==
    \/ EnumDevice
    \/ ReadBegin
    \/ ReadRecvFrame

FrameInit ==
    /\ MapInit
    /\ format_type = input_type
    /\ hEvent
    /\ evsequence = DwordOne

SpecFrame == FrameInit /\ [][FrameNext]_vars

\* The Axis Scaler on its own: one call of scale_axis_value for each
\* calibration and input drawn.
ScaleLogical == {<<-32768, 32767>>, <<0, 255>>, <<0, 1>>, <<-10, 10>>}
ScalePhysical == {<<0, 65535>>, <<-1000, 1000>>, <<1, 2>>}
ScaleDeadzones == {0, 1000, 5000, 10000}
ScaleSaturations == {0, 5000, 9000, 10000}

ScaleProperties ==
    {[logical_min |-> l[1], logical_max |-> l[2], range_min |-> r[1], range_max |-> r[2],
      deadzone |-> d, saturation |-> t, granularity |-> 1] :
        l \in ScaleLogical, r \in ScalePhysical, d \in ScaleDeadzones,
        t \in ScaleSaturations}

\* The inputs drawn for calibration p: the ends, the center and its
\* neighbours, and the points a tenth, a half and nine tenths into each half.
ScaleValues(p) ==
    LET c == Center(p.logical_min, p.logical_max)
        lo == p.logical_min - c
        hi == p.logical_max - c
    IN  {c + v : v \in {lo, hi, 0, 1, -1} \cup {TruncDiv(lo * k, 10) : k \in {1, 5, 9}}
                        \cup {TruncDiv(hi * k, 10) : k \in {1, 5, 9}}}
        \cap (p.logical_min .. p.logical_max)

ScaleInit ==
    /\ Constructed
    /\ \E p \in ScaleProperties : \E v \in ScaleValues(p) :
         scaler = [properties |-> p, value |-> v, called |-> FALSE, result |-> 0]

ScaleCall ==
    /\ ~scaler.called
    /\ scaler' = [scaler EXCEPT !.called = TRUE,
                                !.result = scale_axis_value(scaler.value,
                                                            scaler.properties)]
    /\ UNCHANGED <<sockVars, connected_gamepad_id, input_type, devVars, mapVars,
                   read_event, acquired, rd_pc, un_pc, last>>

ScaleNext == ScaleCall

SpecScale == ScaleInit /\ [][ScaleNext]_vars

-----------------------------------------------------------------------------
(* Properties.                                                             *)

\* A step in which gamepad_handle_input ran.
ProcessStep == nsamples' = nsamples + 1

\* A step in which gamepad_read returned from its recvfrom.
ReadReturn == rd_pc = "recv" /\ rd_pc' = "idle"

\* The fields in which sample s differs from the stored previous sample.
Differing(s) == {f \in Fields : s[f] # state[f]}

Standard == VariantOf(input_type) = "standard"

\* C1: gamepad_unacquire never tears the socket down (the close_server_socket
\* step) while a poll sits between its socket check and the return of its
\* recvfrom.
C1_NoCloseUnderPoll ==
    [][(un_pc = "close" /\ un_pc' = "idle") => rd_pc # "recv"]_vars

\* The three kinds of receive C2 speaks of, for the identity id in force.
C2_Ignored(recv, id) ==
    \/ recv.kind = "timeout"
    \/ recv.kind = "data" /\ recv.code # REQUEST_CODE_GET_GAMEPAD_STATE
    \/ recv.kind = "data" /\ recv.code = REQUEST_CODE_GET_GAMEPAD_STATE /\ recv.id # id

\* C2: while acquired, a poll that times out, receives another code or
\* receives a state push for a foreign id leaves the DIJOYSTATE, the stored
\* previous sample and the sequence counter as they were, queues no Event,
\* raises no wake signal and returns DI_OK.
C2_IgnoredPollChangesNothing ==
    [][(ReadReturn /\ acquired /\ C2_Ignored(last'.recv, connected_gamepad_id))
         => /\ UNCHANGED <<device_state, state, evsequence, queued, seqlog, wakes>>
            /\ last'.result = DI_OK]_vars

C2_Witness ==
    /\ acquired
    /\ last.op = "read"
    /\ last.recv.kind = "data"
    /\ last.recv.code = REQUEST_CODE_GET_GAMEPAD_STATE
    /\ last.recv.b1 = 1
    /\ connected_gamepad_id = 1
    /\ last.recv.id = 2
    /\ last.recv.sample # state
    /\ last.result = DI_OK

\* The number of Events C3 expects of a sample differing in field f alone.
C3_Expected(f) ==
    IF f = "buttons" THEN (IF Standard THEN 12 ELSE 10) ELSE 1

\* The poll before this one ran the very sample s through the Mapping Engine.
C3_Resubmitted(s) ==
    /\ last.op = "read"
    /\ AcceptsState(last.recv, connected_gamepad_id)
    /\ last.recv.sample = s

\* C3 as stated: in either variant a sample differing from the stored one in
\* exactly one field queues exactly one Event (12 or 10 for the buttons), and
\* the same sample again queues none.
C3_OneFieldOneEvent ==
    [][ProcessStep =>
         /\ \A f \in Fields :
              Differing(last'.recv.sample) = {f} => Len(queued') = C3_Expected(f)
         /\ C3_Resubmitted(last'.recv.sample) => queued' = << >>]_vars

\* The fields the variant in force compares: Standard leaves out lz and rz.
Compared == IF Standard THEN Fields \ {"thumb_lz", "thumb_rz"} ELSE Fields

\* C3 amended: a sample differing from the stored one in exactly one field
\* queues exactly one Event (12 or 10 for the buttons) when the variant in
\* force compares that field, and none when the field is lz or rz under
\* Standard; the same sample again queues none.
C3_OneComparedFieldOneEvent ==
    [][ProcessStep =>
         /\ \A f \in Fields :
              Differing(last'.recv.sample) = {f} =>
                  Len(queued') = IF f \in Compared THEN C3_Expected(f) ELSE 0
         /\ C3_Resubmitted(last'.recv.sample) => queued' = << >>]_vars

C3_Witness ==
    /\ nsamples = 2
    /\ Standard
    /\ last.op = "read"
    /\ last.recv.kind = "data"
    /\ last.recv.sample = DecodeSample(OneOff("buttons"))
    /\ Len(queued) = 12

\* C4 as stated: a processed sample advances the sequence counter by the
\* number of Events it queued.
C4_AdvancesByEventCount ==
    [][ProcessStep => evsequence' = DwordAdd(evsequence, Len(queued'))]_vars

\* C4 amended: a processed sample advances the sequence counter by exactly
\* one (mod 2^32) whatever it queued, its Events carry the value the counter
\* had before, and no other step moves the counter.
C4_AdvancesByOne ==
    [][IF ProcessStep
       THEN /\ evsequence' = DwordInc(evsequence)
            /\ \A i \in 1..Len(queued') : queued'[i].seq = evsequence
       ELSE evsequence' = evsequence]_vars

C4_Witness ==
    /\ nsamples = 2
    /\ last.op = "read"
    /\ last.recv.kind = "data"
    /\ queued = << >>
    /\ evsequence = DwordAdd(DwordOne, 2)

\* C5 as stated: the sequence numbers of the Events strictly increase in
\* emission order.
C5_StrictlyIncreasing ==
    \A i, j \in 1..Len(seqlog) : i < j => DwordLess(seqlog[i][1], seqlog[j][1])

\* C5 amended: Events of one sample carry one sequence number, and Events of
\* a later sample carry that number plus the number of samples processed in
\* between (mod 2^32), hence a larger one until the counter wraps.  Stated of
\* each Event and the one emitted just before it, from which it follows for
\* every two Events.
C5_SharedPerSample ==
    \A j \in 2..Len(seqlog) :
        /\ seqlog[j - 1][2] <= seqlog[j][2]
        /\ seqlog[j][1] = DwordAdd(seqlog[j - 1][1], seqlog[j][2] - seqlog[j - 1][2])

C5_Witness ==
    /\ \E i, j \in 1..Len(seqlog) : i < j /\ seqlog[i][2] = seqlog[j][2]
    /\ \E i, j \in 1..Len(seqlog) :
         /\ seqlog[i][2] < seqlog[j][2]
         /\ DwordLess(seqlog[i][1], seqlog[j][1])
    /\ Len(queued) > 1

\* The Events of the merged trigger axis among those just queued.
C6_ZEvents(ev) == {i \in 1..Len(ev) : ev[i].block = "trigger"}

\* The values the Scaler can give raw under the calibration the device reads.
C6_Scaled(raw) ==
    {ScaledAt(ObjectIndexFromId(format_type, "ABSAXIS", 2), raw, p) :
        p \in GarbageFor(input_type, format_type)}

\* C6: under the Xbox-style variant a sample that changes lz, with or without
\* rz, queues exactly one Z Event scaled from MulDiv(lz,-32768,255); one that
\* changes rz alone queues exactly one scaled from MulDiv(rz,32767,255).
C6_LeftTriggerFirst ==
    [][(ProcessStep /\ ~Standard
          /\ Differing(last'.recv.sample) \cap {"thumb_lz", "thumb_rz"} # {})
         => LET s == last'.recv.sample
                z == C6_ZEvents(queued')
                want == IF "thumb_lz" \in Differing(s)
                        THEN C6_Scaled(MulDiv(s.thumb_lz, -32768, 255))
                        ELSE C6_Scaled(MulDiv(s.thumb_rz, 32767, 255))
            IN  /\ Cardinality(z) = 1
                /\ \A i \in z : /\ queued'[i].value \in want
                                /\ queued'[i].index =
                                       ObjectIndexFromId(format_type, "ABSAXIS", 2)
                                /\ device_state'.lZ = queued'[i].value]_vars

C6_Witness ==
    /\ nsamples = 2
    /\ ~Standard
    /\ last.op = "read"
    /\ last.recv.kind = "data"
    /\ last.recv.sample = DecodeSample(BothTriggers)
    /\ state = DecodeSample(BothTriggers)
    /\ Len(queued) = 1
    /\ queued[1].block = "trigger"
    /\ queued[1].value = 31483
    /\ device_state.lZ = 31483

\* The failure cases of a discovery attempt.
C7_FailureCases ==
    {"create_failed", "send_failed", "timeout", "wrong_code", "no_id", "no_dinput"}

\* C7: gamepad_enum_device returns a failure and leaves the descriptor
\* unpopulated when the socket cannot be set up or used, the receive times
\* out, the response has another code, id 0 or no transport-is-dinput bit;
\* it returns DI_OK, with the descriptor populated, only otherwise.
C7_DiscoveryOutcome ==
    last.op \in {"enum", "create"} =>
        /\ last.case \in C7_FailureCases =>
               last.result = DIERR_INPUTLOST /\ ~last.instance.populated
        /\ last.result = DI_OK => last.case = "ok" /\ last.instance.populated
        /\ last.case \in C7_FailureCases \cup {"ok"}

C7_Witness ==
    /\ last.op = "enum"
    /\ last.case = "no_dinput"
    /\ connected_gamepad_id # 0
    /\ last.result = DIERR_INPUTLOST
    /\ ~last.instance.populated

\* C8: a discovery that finds no controller or the wrong consumer reports an
\* outcome other than the one the preceding discovery reported for a
\* transport failure.
C8_NotFoundDistinct ==
    [][(/\ last.op = "enum" /\ last.case \in {"create_failed", "send_failed"}
        /\ last'.op = "enum" /\ last'.case \in {"no_id", "no_dinput"})
         => last'.result # last.result]_vars

\* C9: once gamepad_unacquire has returned, the active identity is none.
C9_IdentityClearedOnUnacquire ==
    (last.op = "unacquire" /\ ~acquired) => connected_gamepad_id = 0

\* C10: an acquire whose GET_GAMEPAD request could not be sent does not
\* return success and does not leave the device acquired.
C10_FailedSendFailsAcquire ==
    (last.op = "acquire" /\ last.sent = "failed") =>
        last.result # DI_OK /\ ~acquired

\* C11: a datagram shorter than the 64-byte frame has no effect: as the
\* response of a discovery it makes the discovery fail and leaves the active
\* identity and the capability flags as they were; as a state push it leaves
\* the DIJOYSTATE and the stored previous sample as they were and queues no
\* Event.
C11_ShortFrameDropped ==
    [][/\ (/\ last'.op = "enum"
           /\ last'.recv.kind = "data"
           /\ last'.recv.len # BUFFER_SIZE)
          => /\ last'.result # DI_OK
             /\ UNCHANGED <<connected_gamepad_id, input_type>>
       /\ (/\ ReadReturn
           /\ last'.recv.kind = "data"
           /\ last'.recv.len # BUFFER_SIZE)
          => UNCHANGED <<device_state, state, queued, seqlog>>]_vars

\* The Events block b queued, in order.
EventsOf(ev, b) == SelectSeq(ev, LAMBDA e : e.block = b)

\* The bit-to-slot table C12 gives, each button by the bit the wire uses.
C12_Slot ==
    (IDX_BUTTON_A :> 1) @@ (IDX_BUTTON_B :> 2) @@ (IDX_BUTTON_X :> 0)
    @@ (IDX_BUTTON_Y :> 3) @@ (IDX_BUTTON_L1 :> 4) @@ (IDX_BUTTON_R1 :> 5)
    @@ (IDX_BUTTON_L2 :> 6) @@ (IDX_BUTTON_R2 :> 7) @@ (IDX_BUTTON_SELECT :> 8)
    @@ (IDX_BUTTON_START :> 9) @@ (IDX_BUTTON_L3 :> 10) @@ (IDX_BUTTON_R3 :> 11)

\* C12: under Standard a sample whose button bitmask differs from the stored
\* one queues exactly 12 button Events, one per source bit in ascending
\* order, each for the slot the table gives; the table is a permutation of
\* 0..11; afterwards every slot holds 0x80 when its source bit is set and
\* 0x00 otherwise.
C12_TwelveSlotsRecomputed ==
    [][(ProcessStep /\ Standard /\ last'.recv.sample.buttons # state.buttons)
         => LET b == last'.recv.sample.buttons
                ev == EventsOf(queued', "buttons")
            IN  /\ DOMAIN C12_Slot = 0..11
                /\ {C12_Slot[i] : i \in 0..11} = 0..11
                /\ Len(ev) = 12
                /\ \A i \in 0..11 :
                     /\ device_state'.rgbButtons[C12_Slot[i]]
                            = IF ButtonBit(b, i) THEN 128 ELSE 0
                     /\ ev[i + 1].value = device_state'.rgbButtons[C12_Slot[i]]
                     /\ ev[i + 1].index
                            = ObjectIndexFromId(format_type, "BUTTON", C12_Slot[i])]_vars

C12_Witness ==
    /\ Standard
    /\ last.op = "read"
    /\ last.recv.kind = "data"
    /\ last.recv.sample.buttons = 1029
    /\ Len(EventsOf(queued, "buttons")) = 12
    /\ {j \in 0..11 : device_state.rgbButtons[j] = 128} = {0, 1, 6}

\* C13: in both variants a sample whose dpad differs from the stored one
\* queues one hat Event, and that Event and the DIJOYSTATE carry dpad*4500
\* for a dpad in 0..7 and -1 for dpad -1.
C13_HatValue ==
    [][(/\ ProcessStep
        /\ VariantOf(input_type) \in {"standard", "xinput"}
        /\ last'.recv.sample.dpad # state.dpad
        /\ last'.recv.sample.dpad \in -1..7)
         => LET d == last'.recv.sample.dpad
                ev == EventsOf(queued', "dpad")
                want == IF d = -1 THEN -1 ELSE d * 4500
            IN  /\ Len(ev) = 1
                /\ ev[1].value = want
                /\ device_state'.rgdwPOV = want]_vars

C13_Witness ==
    /\ last.op = "read"
    /\ last.recv.kind = "data"
    /\ last.recv.sample.dpad = 2
    /\ device_state.rgdwPOV = 9000
    /\ Len(EventsOf(queued, "dpad")) = 1
    /\ EventsOf(queued, "dpad")[1].value = 9000

\* The call under test, as scale_axis_value's contract speaks of it: the
\* input relative to the logical center, and the deadzone and saturation
\* edges of the two signed halves.
Shifted ==
    scaler.value - Center(scaler.properties.logical_min, scaler.properties.logical_max)

HalfEdge(bound, share) ==
    MulDiv(bound - Center(scaler.properties.logical_min, scaler.properties.logical_max),
           share, 10000)

NegSaturationEdge == HalfEdge(scaler.properties.logical_min, scaler.properties.saturation)
PosSaturationEdge == HalfEdge(scaler.properties.logical_max, scaler.properties.saturation)
NegDeadzoneEdge == HalfEdge(scaler.properties.logical_min, scaler.properties.deadzone)
PosDeadzoneEdge == HalfEdge(scaler.properties.logical_max, scaler.properties.deadzone)
PhysicalCenter == Center(scaler.properties.range_min, scaler.properties.range_max)

ValidProperties ==
    /\ scaler.properties.logical_min < scaler.properties.logical_max
    /\ scaler.properties.range_min < scaler.properties.range_max
    /\ scaler.properties.deadzone \in 0..10000
    /\ scaler.properties.saturation \in 0..10000

\* C14 as stated: every input at or beyond the saturation edge of its signed
\* half yields exactly range_min (negative half) or range_max (positive
\* half).
C14_SaturationClamps ==
    (scaler.called /\ ValidProperties)
        => /\ (Shifted <= 0 /\ Shifted <= NegSaturationEdge)
                => scaler.result = scaler.properties.range_min
           /\ (Shifted > 0 /\ Shifted >= PosSaturationEdge)
                => scaler.result = scaler.properties.range_max

\* C14, amended: an input at or beyond the saturation edge of the negative
\* half yields range_min; an input at or beyond the saturation edge of the
\* positive half yields range_max when that edge lies strictly beyond the
\* deadzone edge of the half, and physical_center when the input is still
\* at or inside the deadzone edge.
C14_SaturationClampsBeyondDeadzone ==
    (scaler.called /\ ValidProperties)
        => /\ (Shifted <= 0 /\ Shifted <= NegSaturationEdge)
                => scaler.result = scaler.properties.range_min
           /\ (Shifted > 0 /\ Shifted >= PosSaturationEdge
                    /\ PosDeadzoneEdge < PosSaturationEdge)
                => scaler.result = scaler.properties.range_max
           /\ (Shifted > 0 /\ Shifted >= PosSaturationEdge
                    /\ Shifted <= PosDeadzoneEdge)
                => scaler.result = PhysicalCenter

C14_Witness ==
    /\ scaler.called
    /\ scaler.properties = [DefaultProperties EXCEPT !.deadzone = 1000,
                                                     !.saturation = 9000]
    /\ scaler.value = -32768
    /\ Shifted <= NegSaturationEdge
    /\ scaler.result = 0

C16_KindCount(objs, k) == Cardinality({i \in 1..Len(objs) : objs[i].kind = k})

C16_Layout(objs) ==
    <<C16_KindCount(objs, "ABSAXIS"), C16_KindCount(objs, "BUTTON"),
      C16_KindCount(objs, "POV"), Len(objs)>>

\* C16: the variant follows the capability flags with Standard first, the
\* Standard object list has 4 axes, 12 buttons and 1 hat (17 objects), the
\* Xbox-style one 5 axes, 10 buttons and 1 hat (16 objects), and whenever
\* the Mapping Engine processes a sample the variant it maps with is the
\* variant of the object list the device was created with.
C16_VariantsAgree ==
    [][ProcessStep
         => /\ HasFlag(input_type, FLAG_DINPUT_MAPPER_STANDARD)
                 => /\ VariantOf(input_type) = "standard"
                    /\ C16_Layout(get_device_objects(input_type)) = <<4, 12, 1, 17>>
            /\ (/\ ~HasFlag(input_type, FLAG_DINPUT_MAPPER_STANDARD)
                 /\ HasFlag(input_type, FLAG_DINPUT_MAPPER_XINPUT))
                 => /\ VariantOf(input_type) = "xinput"
                    /\ C16_Layout(get_device_objects(input_type)) = <<5, 10, 1, 16>>
            /\ VariantOf(format_type) = VariantOf(input_type)]_vars

\* C17: at most one socket is open and at most one WSAStartup is
\* outstanding at any time, the globals say exactly what is open, and right
\* after gamepad_unacquire the socket is invalid and the socket layer is
\* de-initialised.
C17_OneSocketOneInit ==
    /\ os.sockets = (IF server_sock = "INVALID" THEN 0 ELSE 1)
    /\ os.startups = (IF winsock_loaded THEN 1 ELSE 0)
    /\ last.op = "unacquire"
         => /\ server_sock = "INVALID"
            /\ ~winsock_loaded
            /\ os = [sockets |-> 0, startups |-> 0]

C17_Witness ==
    /\ last.op = "enum"
    /\ acquired
    /\ rd_pc = "recv"
    /\ server_sock = "OPEN"
    /\ os = [sockets |-> 1, startups |-> 1]

\* C18: whatever name_len a GET_GAMEPAD response carries, the name copy of a
\* discovery stays inside the datagram (offset 10 plus the length copied is
\* at most 64) and the name with its terminator stays inside the 64-byte
\* name array.
C18_NameCopyBounded ==
    (last.op \in {"enum", "create"} /\ last.instance.populated)
        => /\ last.instance.name_len >= 0
           /\ NameOffset + last.instance.name_len <= BUFFER_SIZE
           /\ last.instance.name_len + 1 <= GamepadNameSize

\* C19: a processed sample queues at least one Event exactly when a field
\* its variant compares differs from the stored sample; with a notification
\* handle registered SetEvent is called once exactly when the sample queued
\* an Event; a sample that queues no Event, and any sample of a device
\* without a handle, calls SetEvent not at all.
C19_WakeIffEvent ==
    [][ProcessStep
         => /\ (Len(queued') >= 1)
                 <=> (Differing(last'.recv.sample) \cap Compared # {})
            /\ wakes' = IF hEvent /\ Len(queued') >= 1 THEN wakes + 1 ELSE wakes]_vars

C19_Witness ==
    /\ hEvent
    /\ last.op = "read"
    /\ last.recv.kind = "data"
    /\ nsamples = 2
    /\ wakes = 1
    /\ Len(queued) = 0

\* C20: gamepad_unacquire goes on from its wait only when no read is in
\* flight, sends RELEASE_GAMEPAD on a socket that is still open, and closes
\* the socket only in the step that follows the release.
C20_WaitReleaseClose ==
    [][/\ (un_pc = "wait" /\ un_pc' = "release") => rd_pc # "recv"
       /\ (un_pc = "release" /\ un_pc' = "close")
            => /\ server_sock = "OPEN"
               /\ last'.op = "release"
               /\ server_sock' = server_sock
       /\ (un_pc # "idle" /\ server_sock' # server_sock) => un_pc = "close"]_vars

\* C21: when gamepad_acquire has just returned success, the socket is open
\* and bound.
C21_AcquiredHasSocket ==
    (last.op = "acquire" /\ last.result = DI_OK /\ acquired)
        => (server_sock = "OPEN" /\ sock_bound)

\* C22: a GET_GAMEPAD exchange that fails by timeout, wrong response code,
\* id 0 or a cleared DINPUT bit leaves the active identity at 0 and the
\* capability flags as they were.
C22_FailedExchangeClearsIdentity ==
    [][(/\ last' # last
        /\ last'.op \in {"enum", "create", "acquire"}
        /\ last'.case \in {"timeout", "wrong_code", "no_id", "no_dinput"})
         => /\ connected_gamepad_id' = 0
            /\ input_type' = input_type]_vars

\* C23: once the device is created, no acquire, poll or unacquire step
\* changes the capability flags, so the variant gamepad_handle_input selects
\* stays the one in force at creation.
C23_VariantFixedAfterCreation ==
    [][(created /\ last'.op \in {"acquire", "read", "release", "unacquire"})
         => /\ input_type' = input_type
            /\ VariantOf(input_type') = VariantOf(input_type)]_vars

\* C24: under Standard a sample that differs from the stored one only in
\* lz, only in rz or in both queues no Event, calls SetEvent not at all and
\* leaves the DIJOYSTATE and the stored sample, lz and rz included, as they
\* were.
C24_StandardIgnoresTriggers ==
    [][(/\ ProcessStep
        /\ Standard
        /\ Differing(last'.recv.sample) # {}
        /\ Differing(last'.recv.sample) \subseteq {"thumb_lz", "thumb_rz"})
         => /\ queued' = << >>
            /\ wakes' = wakes
            /\ device_state' = device_state
            /\ state' = state]_vars

C24_Witness ==
    /\ Standard
    /\ hEvent
    /\ last.op = "read"
    /\ last.recv.kind = "data"
    /\ nsamples = 2
    /\ Differing(last.recv.sample) = {"thumb_lz", "thumb_rz"}
    /\ queued = << >>
    /\ wakes = 1

\* The place of each block in the order C25 gives.
C25_Rank ==
    [b \in {"thumb_lx", "thumb_ly", "thumb_rx", "thumb_ry", "trigger", "buttons", "dpad"}
        |-> CASE b = "thumb_lx" -> 1 [] b = "thumb_ly" -> 2 [] b = "thumb_rx" -> 3
              [] b = "thumb_ry" -> 4 [] b = "trigger" -> 5 [] b = "buttons" -> 6
              [] OTHER -> 7]

\* The slot the n-th button Event of a sample is for: source bit n - 1
\* through the table under Standard, the bit itself under Xbox-style.
C25_SlotOfBit(n) == IF Standard THEN C12_Slot[n - 1] ELSE n - 1

\* C25: the Events of one sample are queued in the order lx, ly, rx, ry,
\* merged Z (Xbox-style only), buttons by ascending source bit, hat,
\* whichever fields changed: no Event of a later field precedes one of an
\* earlier field, only button Events share a field, and Standard queues no
\* merged Z Event.
C25_FixedFieldOrder ==
    [][ProcessStep
         => /\ \A i \in 1..(Len(queued') - 1) :
                 \/ C25_Rank[queued'[i].block] < C25_Rank[queued'[i + 1].block]
                 \/ queued'[i].block = "buttons" /\ queued'[i + 1].block = "buttons"
            /\ \A n \in 1..Len(EventsOf(queued', "buttons")) :
                 EventsOf(queued', "buttons")[n].index
                     = ObjectIndexFromId(format_type, "BUTTON", C25_SlotOfBit(n))
            /\ Standard => EventsOf(queued', "trigger") = << >>]_vars

C25_Witness ==
    /\ VariantOf(input_type) = "xinput"
    /\ format_type = input_type
    /\ last.op = "read"
    /\ last.recv.kind = "data"
    /\ Len(queued) = 16
    /\ queued[1].block = "thumb_lx"
    /\ queued[5].block = "trigger"
    /\ queued[6].block = "buttons"
    /\ queued[16].block = "dpad"

====
